---- MODULE Spec2Model ----
(***************************************************************************)
(* Resistor colour-band codec, E-series matcher and capacitor marking      *)
(* codec of PedalPath v2 (visual-overhaul-2026/reference-code).            *)
(*                                                                         *)
(* Every call is one step: a caller picks the arguments, the operation     *)
(* runs to its return value or to the exception it raises, and the caller  *)
(* may feed the value into a second call (decode what was just encoded).   *)
(*                                                                         *)
(* Numbers.  The source computes on binary doubles.  The model carries a   *)
(* magnitude as an exact decimal [m, e] = m * 10^e, which keeps every      *)
(* multiplier from 0.01 to 10^9 inside the integers the checker has.       *)
(* A double and its decimal differ by a rounding error far below every     *)
(* margin the code compares against, except where the decimal sits exactly *)
(* on a threshold: on a half that round() has to break, on an edge of a    *)
(* search window, between two equally near table values.  There the        *)
(* rounding error of the doubles decides.  Every function that computes   *)
(* on doubles takes it as a last parameter, noise = [ulp, tie]: ulp is the *)
(* side of the decimal the double falls on (-1 below, +1 above, 0 the      *)
(* doubles are exact and Python's own rule applies), tie is 1 when, of two *)
(* table values equally near in decimal, the later is the nearer double.   *)
(* A caller draws the noise with the arguments.                            *)
(* Percentages are carried in hundredths of a percent (0.05 % is 5), and   *)
(* series significands in hundredths (4.7 is 470).  An optional value is a *)
(* sequence: <<>> is None, <<x>> is x.                                     *)
(***************************************************************************)
EXTENDS Integers, Sequences, FiniteSets, TLC

VARIABLES pc, call, result, prev

vars == <<pc, call, result, prev>>

None == <<>>

Some(x) == <<x>>

IsNone(o) == Len(o) = 0

Get(o) == o[1]

(***************************************************************************)
(* Exact decimals                                                          *)
(***************************************************************************)
Dec(m, e) == [m |-> m, e |-> e]

Abs(n) == IF n < 0 THEN -n ELSE n

Min(a, b) == IF a < b THEN a ELSE b

RECURSIVE Pow10(_)
Pow10(n) == IF n <= 0 THEN 1 ELSE 10 * Pow10(n - 1)

RECURSIVE NumDigits(_)
NumDigits(m) == IF m < 10 THEN 1 ELSE 1 + NumDigits(m \div 10)

RECURSIVE Norm(_)
Norm(x) ==
    IF x.m = 0 THEN Dec(0, 0)
    ELSE IF x.m % 10 = 0 THEN Norm(Dec(x.m \div 10, x.e + 1))
    ELSE x

\* position of the leading digit: floor(log10(x)) for x > 0
Log10Floor(x) == NumDigits(x.m) + x.e - 1

\* mantissa of x written with exponent e0 <= x.e
Align(x, e0) == x.m * Pow10(x.e - e0)

DecLess(x, y) ==
    IF y.m = 0 THEN FALSE
    ELSE IF x.m = 0 THEN TRUE
    ELSE IF Log10Floor(x) # Log10Floor(y) THEN Log10Floor(x) < Log10Floor(y)
    ELSE LET e0 == Min(x.e, y.e) IN Align(x, e0) < Align(y, e0)

DecEq(x, y) == Norm(x) = Norm(y)

DecLeq(x, y) == ~DecLess(y, x)

\* |x - y| for two decimals of nearby size
DecAbsDiff(x, y) ==
    LET e0 == Min(x.e, y.e) IN Dec(Abs(Align(x, e0) - Align(y, e0)), e0)

DecMul10(x, k) == Dec(x.m, x.e + k)

IsInteger(x) == Norm(x).e >= 0

\* int(x): truncation towards zero of a non-negative decimal
IntPart(x) == IF x.e >= 0 THEN x.m * Pow10(x.e) ELSE x.m \div Pow10(-x.e)

\* round(x): Python rounds an exact half to the even neighbour
Round(x, ulp) ==
    IF x.e >= 0 THEN x.m * Pow10(x.e)
    ELSE LET p == Pow10(-x.e)
             q == x.m \div p
             r == x.m % p
         IN IF 2 * r < p THEN q
            ELSE IF 2 * r > p THEN q + 1
            ELSE IF ulp > 0 THEN q + 1
            ELSE IF ulp < 0 THEN q
            ELSE IF q % 2 = 0 THEN q ELSE q + 1

\* lo <= x <= hi
Between(lo, x, hi, ulp) ==
    /\ DecLess(lo, x) \/ (DecEq(lo, x) /\ ulp >= 0)
    /\ DecLess(x, hi) \/ (DecEq(x, hi) /\ ulp <= 0)

(***************************************************************************)
(* resistor_decoder.py: lookup tables                                      *)
(***************************************************************************)
DIGIT_COLORS ==
    [black |-> 0, brown |-> 1, red |-> 2, orange |-> 3, yellow |-> 4,
     green |-> 5, blue |-> 6, violet |-> 7, purple |-> 7, gray |-> 8,
     grey |-> 8, white |-> 9]

DIGIT_TO_COLOR ==
    [d \in 0..9 |->
        <<"black", "brown", "red", "orange", "yellow",
          "green", "blue", "violet", "gray", "white">>[d + 1]]

\* a table with the two fractional multipliers exchanged
MULTIPLIER_COLORS_GoldSilverSwapped ==
    [black |-> Dec(1, 0), brown |-> Dec(1, 1), red |-> Dec(1, 2),
     orange |-> Dec(1, 3), yellow |-> Dec(1, 4), green |-> Dec(1, 5),
     blue |-> Dec(1, 6), violet |-> Dec(1, 7), purple |-> Dec(1, 7),
     gray |-> Dec(1, 8), grey |-> Dec(1, 8), white |-> Dec(1, 9),
     gold |-> Dec(1, -2), silver |-> Dec(1, -1)]

MULTIPLIER_COLORS ==
    [black |-> Dec(1, 0), brown |-> Dec(1, 1), red |-> Dec(1, 2),
     orange |-> Dec(1, 3), yellow |-> Dec(1, 4), green |-> Dec(1, 5),
     blue |-> Dec(1, 6), violet |-> Dec(1, 7), purple |-> Dec(1, 7),
     gray |-> Dec(1, 8), grey |-> Dec(1, 8), white |-> Dec(1, 9),
     gold |-> Dec(1, -1), silver |-> Dec(1, -2)]

\* the dict in source order: key (the multiplier) and value (the colour)
MULTIPLIER_TO_COLOR ==
    << [key |-> Dec(1, 0), color |-> "black"],
       [key |-> Dec(1, 1), color |-> "brown"],
       [key |-> Dec(1, 2), color |-> "red"],
       [key |-> Dec(1, 3), color |-> "orange"],
       [key |-> Dec(1, 4), color |-> "yellow"],
       [key |-> Dec(1, 5), color |-> "green"],
       [key |-> Dec(1, 6), color |-> "blue"],
       [key |-> Dec(1, 7), color |-> "violet"],
       [key |-> Dec(1, 8), color |-> "gray"],
       [key |-> Dec(1, 9), color |-> "white"],
       [key |-> Dec(1, -1), color |-> "gold"],
       [key |-> Dec(1, -2), color |-> "silver"] >>

\* percent * 100
TOLERANCE_COLORS ==
    [brown |-> 100, red |-> 200, green |-> 50, blue |-> 25, violet |-> 10,
     purple |-> 10, gray |-> 5, grey |-> 5, gold |-> 500, silver |-> 1000]

\* a table with the colours of 0.25 % and 0.5 % exchanged
TOLERANCE_TO_COLOR_BlueGreenSwapped ==
    (5 :> "gray") @@ (10 :> "violet") @@ (25 :> "green") @@ (50 :> "blue")
    @@ (100 :> "brown") @@ (200 :> "red") @@ (500 :> "gold")
    @@ (1000 :> "silver")

\* the table with a colour for 3 %
TOLERANCE_TO_COLOR_WithThreePercent ==
    (5 :> "gray") @@ (10 :> "violet") @@ (25 :> "blue") @@ (50 :> "green")
    @@ (100 :> "brown") @@ (200 :> "red") @@ (300 :> "orange")
    @@ (500 :> "gold") @@ (1000 :> "silver")

TOLERANCE_TO_COLOR ==
    (5 :> "gray") @@ (10 :> "violet") @@ (25 :> "blue") @@ (50 :> "green")
    @@ (100 :> "brown") @@ (200 :> "red") @@ (500 :> "gold")
    @@ (1000 :> "silver")

\* significands * 100
E12_VALUES ==
    <<
       100, 120, 150, 180, 220, 270, 330, 390, 470, 560, 680, 820
    >>

E24_VALUES ==
    <<
       100, 110, 120, 130, 150, 160, 180, 200, 220, 240, 270, 300,
       330, 360, 390, 430, 470, 510, 560, 620, 680, 750, 820, 910
    >>

E48_VALUES ==
    <<
       100, 105, 110, 115, 121, 127, 133, 140, 147, 154, 162, 169,
       178, 187, 196, 205, 215, 226, 237, 249, 261, 274, 287, 301,
       316, 332, 348, 365, 383, 402, 422, 442, 464, 487, 511, 536,
       562, 590, 619, 649, 681, 715, 750, 787, 825, 866, 909, 953
    >>

E96_VALUES ==
    <<
       100, 102, 105, 107, 110, 113, 115, 118, 121, 124, 127, 130,
       133, 137, 140, 143, 147, 150, 154, 158, 162, 165, 169, 174,
       178, 182, 187, 191, 196, 200, 205, 210, 215, 221, 226, 232,
       237, 243, 249, 255, 261, 267, 274, 280, 287, 294, 301, 309,
       316, 324, 332, 340, 348, 357, 365, 374, 383, 392, 402, 412,
       422, 432, 442, 453, 464, 475, 487, 499, 511, 523, 536, 549,
       562, 576, 590, 604, 619, 634, 649, 665, 681, 698, 715, 732,
       750, 768, 787, 806, 825, 845, 866, 887, 909, 931, 953, 976
    >>

E_SERIES ==
    [E12 |-> E12_VALUES, E24 |-> E24_VALUES, E48 |-> E48_VALUES,
     E96 |-> E96_VALUES]

(***************************************************************************)
(* What a call hands back: a value, or the exception it raised             *)
(***************************************************************************)
Return(v) == [ok |-> TRUE, raises |-> "", value |-> v]

Raise(kind) == [ok |-> FALSE, raises |-> kind, value |-> <<>>]

(***************************************************************************)
(* find_e_series                                                           *)
(*                                                                         *)
(* significand = ohms / decade is a double; a decimal that ends in a 5 in  *)
(* its third decimal place has no exact double, so the quotient lies on    *)
(* one side of it and round(significand, 2) follows that side.             *)
(***************************************************************************)
\* ohms / decade, with decade = 10 ** floor(log10(ohms))
Significand(ohms) == Dec(ohms.m, 1 - NumDigits(ohms.m))

\* round(x, 2), in hundredths
Round2(x, ulp) == Round(Dec(x.m, x.e + 2), ulp)

\* abs(round(val, 2) - sig_rounded) < 0.005 for some val of the series
SeriesContains(series_values, sig_rounded) ==
    \E i \in DOMAIN series_values :
        2 * Abs(series_values[i] - sig_rounded) < 1

RECURSIVE FirstSeries(_, _)
FirstSeries(names, sig_rounded) ==
    IF names = <<>> THEN None
    ELSE IF SeriesContains(E_SERIES[Head(names)], sig_rounded)
         THEN Some(Head(names))
         ELSE FirstSeries(Tail(names), sig_rounded)

\* diff = abs(val * decade - ohms) for val = E96_VALUES[i], where target is
\* ohms and scale is a hundredth of the decade, both in units of 10^unit
Diff(i, target, scale) == Abs(E96_VALUES[i] * scale - target)

\* the scan of E96_VALUES across the decade: the index of best_val, the
\* first value whose diff is below every diff before it (best = 0: none yet)
RECURSIVE ScanE96(_, _, _, _, _)
ScanE96(i, target, scale, best, tie) ==
    IF i > Len(E96_VALUES) THEN best
    ELSE IF \/ best = 0
            \/ Diff(i, target, scale) < Diff(best, target, scale)
            \/ Diff(i, target, scale) = Diff(best, target, scale) /\ tie > 0
         THEN ScanE96(i + 1, target, scale, i, tie)
         ELSE ScanE96(i + 1, target, scale, best, tie)

NearestE96(ohms, decade, tie) ==
    LET unit == Min(decade - 2, ohms.e)
        best == ScanE96(1, Align(ohms, unit), Pow10(decade - 2 - unit), 0,
                        tie)
    IN Dec(E96_VALUES[best], decade - 2)

find_e_series(ohms, noise) ==
    IF ohms.m <= 0 THEN [series_name |-> None, nearest |-> None]
    ELSE LET decade == Log10Floor(ohms)
             sig_rounded == Round2(Significand(ohms), noise.ulp)
             series == FirstSeries(<<"E12", "E24", "E48", "E96">>, sig_rounded)
         IN IF ~IsNone(series)
            THEN [series_name |-> series, nearest |-> None]
            ELSE [series_name |-> None,
                  nearest |-> Some(NearestE96(ohms, decade, noise.tie))]

(***************************************************************************)
(* decode_resistor                                                         *)
(***************************************************************************)
\* b.strip().lower() on the spellings a caller passes
StripLower(b) ==
    CASE b = "Yellow" -> "yellow"
      [] b = " violet " -> "violet"
      [] OTHER -> b

\* a normalisation that keeps the first five bands
NormalizedFirstFive(bands) ==
    [i \in 1..Min(Len(bands), 5) |-> StripLower(bands[i])]

Normalized(bands) == [i \in DOMAIN bands |-> StripLower(bands[i])]

ResistorValue(ohms, tolerance, bands, noise) ==
    LET es == find_e_series(ohms, noise)
    IN [ohms |-> ohms, tolerance_percent |-> tolerance, bands |-> bands,
        e_series_match |-> es.series_name, nearest_standard |-> es.nearest]

\* TOLERANCE_COLORS.get(tol_band)
ToleranceGet(tol_band) ==
    IF tol_band \in DOMAIN TOLERANCE_COLORS
    THEN Some(TOLERANCE_COLORS[tol_band]) ELSE None

decode_resistor(bands, noise) ==
    LET normalized == Normalized(bands)
    IN IF Len(normalized) = 5
       THEN IF \/ \E i \in 1..3 : normalized[i] \notin DOMAIN DIGIT_COLORS
               \/ normalized[4] \notin DOMAIN MULTIPLIER_COLORS
            THEN Raise("ValueError")
            ELSE LET digits == DIGIT_COLORS[normalized[1]] * 100
                               + DIGIT_COLORS[normalized[2]] * 10
                               + DIGIT_COLORS[normalized[3]]
                     multiplier == MULTIPLIER_COLORS[normalized[4]]
                 IN Return(ResistorValue(Dec(digits * multiplier.m, multiplier.e),
                                         ToleranceGet(normalized[5]), normalized, noise))
       ELSE IF Len(normalized) = 4
       THEN IF \/ \E i \in 1..2 : normalized[i] \notin DOMAIN DIGIT_COLORS
               \/ normalized[3] \notin DOMAIN MULTIPLIER_COLORS
            THEN Raise("ValueError")
            ELSE LET digits == DIGIT_COLORS[normalized[1]] * 10
                               + DIGIT_COLORS[normalized[2]]
                     multiplier == MULTIPLIER_COLORS[normalized[3]]
                 IN Return(ResistorValue(Dec(digits * multiplier.m, multiplier.e),
                                         ToleranceGet(normalized[4]), normalized, noise))
       ELSE Raise("ValueError")

(***************************************************************************)
(* encode_resistor                                                         *)
(***************************************************************************)
\* sorted(MULTIPLIER_TO_COLOR.keys())
RECURSIVE Insert(_, _)
Insert(k, sorted) ==
    IF sorted = <<>> THEN <<k>>
    ELSE IF DecLess(k, Head(sorted)) THEN <<k>> \o sorted
    ELSE <<Head(sorted)>> \o Insert(k, Tail(sorted))

RECURSIVE SortedKeys(_)
SortedKeys(dict) ==
    IF dict = <<>> THEN <<>>
    ELSE Insert(Head(dict).key, SortedKeys(Tail(dict)))

SortedMultipliers == SortedKeys(MULTIPLIER_TO_COLOR)

\* MULTIPLIER_TO_COLOR[mult_value]
MultiplierColor(mult_value) ==
    LET i == CHOOSE j \in DOMAIN MULTIPLIER_TO_COLOR :
                 DecEq(MULTIPLIER_TO_COLOR[j].key, mult_value)
    IN MULTIPLIER_TO_COLOR[i].color

\* ohms / mult_value, every multiplier being a power of ten
Quotient(ohms, mult_value) == Dec(ohms.m, ohms.e - mult_value.e)

DecMax(x, y) == IF DecLess(x, y) THEN y ELSE x

\* abs(sig * mult_value - ohms) / max(ohms, 1e-12) < bound, bound a power of ten
RoundTrips(sig, mult_value, ohms, bound) ==
    LET diff == DecAbsDiff(Dec(sig, mult_value.e), ohms)
        den == DecMax(ohms, Dec(1, -12))
    IN DecLess(diff, Dec(den.m, den.e + bound.e))

\* the return statement of _encode_5band; DIGIT_TO_COLOR[10] is a KeyError
Bands5(sig, mult_value, tol_color) ==
    LET d1 == sig \div 100
        d2 == (sig \div 10) % 10
        d3 == sig % 10
    IN IF d1 \notin DOMAIN DIGIT_TO_COLOR THEN Raise("KeyError")
       ELSE Return(<<DIGIT_TO_COLOR[d1], DIGIT_TO_COLOR[d2], DIGIT_TO_COLOR[d3],
                     MultiplierColor(mult_value), tol_color>>)

Bands4(sig, mult_value, tol_color) ==
    LET d1 == sig \div 10
        d2 == sig % 10
    IN IF d1 \notin DOMAIN DIGIT_TO_COLOR THEN Raise("KeyError")
       ELSE Return(<<DIGIT_TO_COLOR[d1], DIGIT_TO_COLOR[d2],
                     MultiplierColor(mult_value), tol_color>>)

\* one pass of a for loop over keys: None when no multiplier is accepted
RECURSIVE Search5(_, _, _, _, _)
Search5(keys, ohms, tol_color, bound, ulp) ==
    IF keys = <<>> THEN None
    ELSE LET mult_value == Head(keys)
             candidate == Quotient(ohms, mult_value)
             sig == Round(candidate, ulp)
         IN IF /\ mult_value.m > 0
               /\ Between(Dec(995, -1), candidate, Dec(9995, -1), ulp)
               /\ RoundTrips(sig, mult_value, ohms, bound)
            THEN Some(Bands5(sig, mult_value, tol_color))
            ELSE Search5(Tail(keys), ohms, tol_color, bound, ulp)

RECURSIVE Search4(_, _, _, _, _)
Search4(keys, ohms, tol_color, bound, ulp) ==
    IF keys = <<>> THEN None
    ELSE LET mult_value == Head(keys)
             candidate == Quotient(ohms, mult_value)
             sig == Round(candidate, ulp)
         IN IF /\ mult_value.m > 0
               /\ Between(Dec(95, -1), candidate, Dec(995, -1), ulp)
               /\ RoundTrips(sig, mult_value, ohms, bound)
            THEN Some(Bands4(sig, mult_value, tol_color))
            ELSE Search4(Tail(keys), ohms, tol_color, bound, ulp)

\* the encoder that tries gold and silver at 1 % before the sorted multipliers
_encode_5band_FractionalFirst(ohms, tol_color, noise) ==
    IF ohms.m <= 0 THEN Raise("ValueError")
    ELSE LET first == Search5(<<Dec(1, -1), Dec(1, -2)>>, ohms, tol_color,
                              Dec(1, -2), noise.ulp)
             second == Search5(SortedMultipliers, ohms, tol_color,
                               Dec(1, -3), noise.ulp)
         IN IF ~IsNone(first) THEN Get(first)
            ELSE IF ~IsNone(second) THEN Get(second)
            ELSE Raise("ValueError")

_encode_5band(ohms, tol_color, noise) ==
    IF ohms.m <= 0 THEN Raise("ValueError")
    ELSE LET first == Search5(SortedMultipliers, ohms, tol_color,
                              Dec(1, -3), noise.ulp)
             second == Search5(<<Dec(1, -1), Dec(1, -2)>>, ohms, tol_color,
                               Dec(1, -2), noise.ulp)
         IN IF ~IsNone(first) THEN Get(first)
            ELSE IF ~IsNone(second) THEN Get(second)
            ELSE Raise("ValueError")

\* the value is None (<<>>) or the four bands
_encode_4band(ohms, tol_color, noise) ==
    LET first == Search4(SortedMultipliers, ohms, tol_color,
                         Dec(1, -3), noise.ulp)
        second == Search4(<<Dec(1, -1), Dec(1, -2)>>, ohms, tol_color,
                          Dec(1, -2), noise.ulp)
    IN IF ~IsNone(first)
       THEN (IF Get(first).ok THEN Return(Some(Get(first).value)) ELSE Get(first))
       ELSE IF ~IsNone(second)
       THEN (IF Get(second).ok THEN Return(Some(Get(second).value)) ELSE Get(second))
       ELSE Return(None)

encode_resistor(ohms, tolerance_percent, noise) ==
    IF tolerance_percent \notin DOMAIN TOLERANCE_TO_COLOR THEN Raise("ValueError")
    ELSE LET tol_color == TOLERANCE_TO_COLOR[tolerance_percent]
             bands_5 == _encode_5band(ohms, tol_color, noise)
             bands_4 == _encode_4band(ohms, tol_color, noise)
         IN IF ~bands_5.ok THEN bands_5
            ELSE IF ~bands_4.ok THEN bands_4
            ELSE Return([ohms |-> ohms, bands_5 |-> bands_5.value,
                         bands_4 |-> bands_4.value, tolerance_color |-> tol_color,
                         tolerance_percent |-> tolerance_percent])

(***************************************************************************)
(* capacitor_decoder.py: lookup tables.  A marking is a sequence of        *)
(* one-character strings.                                                  *)
(***************************************************************************)
\* percent * 100
TOLERANCE_CODES ==
    [B |-> 10, C |-> 25, D |-> 50, F |-> 100, G |-> 200, J |-> 500,
     K |-> 1000, M |-> 2000, Z |-> -2000]

\* the table with a letter for 3 %
TOLERANCE_TO_LETTER_WithThreePercent ==
    (100 :> "F") @@ (200 :> "G") @@ (300 :> "H") @@ (500 :> "J")
    @@ (1000 :> "K") @@ (2000 :> "M")

TOLERANCE_TO_LETTER ==
    (100 :> "F") @@ (200 :> "G") @@ (500 :> "J") @@ (1000 :> "K")
    @@ (2000 :> "M")

\* the multipliers are powers of ten: the table holds the exponents
UNIT_TO_PF ==
    (<<"p", "f">> :> 0) @@ (<<"p">> :> 0) @@ (<<"n", "f">> :> 3)
    @@ (<<"n">> :> 3) @@ (<<"u", "f">> :> 6) @@ (<<"u">> :> 6)
    @@ (<<"µ", "f">> :> 6) @@ (<<"µ">> :> 6) @@ (<<"m", "f">> :> 6)

DecimalDigits == <<"0", "1", "2", "3", "4", "5", "6", "7", "8", "9">>

\* int(c) for one digit
DigitValue(c) == (CHOOSE i \in DOMAIN DecimalDigits : DecimalDigits[i] = c) - 1

Range(s) == {s[i] : i \in DOMAIN s}

\* str.lower() and str.upper() on the letters a marking can hold; the last
\* pair is the Greek letter mu, the upper case of the micro sign as well
UpperCase == <<"A", "B", "C", "D", "E", "F", "G", "H", "I", "J", "K", "L", "M",
               "N", "P", "U", "V", "Z", "Μ">>

LowerCase == <<"a", "b", "c", "d", "e", "f", "g", "h", "i", "j", "k", "l", "m",
               "n", "p", "u", "v", "z", "μ">>

Lower(c) ==
    IF c \in Range(UpperCase)
    THEN LowerCase[CHOOSE i \in DOMAIN UpperCase : UpperCase[i] = c]
    ELSE c

Upper(c) ==
    IF c = "µ" THEN "Μ"
    ELSE IF c \in Range(LowerCase)
    THEN UpperCase[CHOOSE i \in DOMAIN LowerCase : LowerCase[i] = c]
    ELSE c

\* a character class under re.IGNORECASE: the characters whose lower or upper
\* case is the one of a character of the class
IgnoreCase(chars) ==
    chars \cup {Lower(c) : c \in chars} \cup {Upper(c) : c \in chars}
    \cup {Lower(Upper(c)) : c \in chars}

\* \d, \s, [A-MZ], [pnuµ], [uµ], f, \., [/,], [vV]
ClassDigit == Range(DecimalDigits)

ClassSpace == {" "}

ClassTolerance ==
    IgnoreCase({"A", "B", "C", "D", "E", "F", "G", "H", "I", "J", "K", "L",
                "M", "Z"})

ClassUnit == IgnoreCase({"p", "n", "u", "µ"})

ClassMicro == IgnoreCase({"u", "µ"})

ClassF == IgnoreCase({"f"})

ClassDot == {"."}

ClassSeparator == {"/", ","}

ClassV == {"v", "V"}

(***************************************************************************)
(* Regular expressions.  Each of the four patterns is ^, a run of          *)
(* quantified character classes, $.  An item [chars, min, max, inf, opt]   *)
(* takes min to max characters of chars (any number from min when inf),    *)
(* or none at all when opt; it takes the most it can and gives back one    *)
(* character at a time, as the regex engine backtracks.                    *)
(***************************************************************************)
One(chars) == [chars |-> chars, min |-> 1, max |-> 1, inf |-> FALSE, opt |-> FALSE]

Opt(chars) == [chars |-> chars, min |-> 1, max |-> 1, inf |-> FALSE, opt |-> TRUE]

Plus(chars) == [chars |-> chars, min |-> 1, max |-> 1, inf |-> TRUE, opt |-> FALSE]

Star(chars) == [chars |-> chars, min |-> 0, max |-> 0, inf |-> TRUE, opt |-> FALSE]

Rep(chars, min, max) ==
    [chars |-> chars, min |-> min, max |-> max, inf |-> FALSE, opt |-> FALSE]

OptRep(chars, min, max) ==
    [chars |-> chars, min |-> min, max |-> max, inf |-> FALSE, opt |-> TRUE]

\* the number of characters of chars at pos, limit at most
RECURSIVE Run(_, _, _, _)
Run(s, pos, chars, limit) ==
    IF limit = 0 \/ pos > Len(s) \/ s[pos] \notin chars THEN 0
    ELSE 1 + Run(s, pos + 1, chars, limit - 1)

\* the match of items[i..] on s from pos to the end of s: None, or the text
\* each item took
RECURSIVE MatchFrom(_, _, _, _)
RECURSIVE TryLen(_, _, _, _, _)
MatchFrom(items, i, s, pos) ==
    IF i > Len(items)
    THEN (IF pos = Len(s) + 1 THEN Some(<<>>) ELSE None)
    ELSE TryLen(items, i, s, pos,
                Run(s, pos, items[i].chars,
                    IF items[i].inf THEN Len(s) ELSE items[i].max))

TryLen(items, i, s, pos, k) ==
    IF k < items[i].min
    THEN IF items[i].opt
         THEN LET rest == MatchFrom(items, i + 1, s, pos)
              IN IF IsNone(rest) THEN None ELSE Some(<<<<>>>> \o Get(rest))
         ELSE None
    ELSE LET rest == MatchFrom(items, i + 1, s, pos + k)
         IN IF IsNone(rest) THEN TryLen(items, i, s, pos, k - 1)
            ELSE Some(<<SubSeq(s, pos, pos + k - 1)>> \o Get(rest))

\* pattern.match(marking)
Match(items, marking) == MatchFrom(items, 1, marking, 1)

_RE_EIA ==
    << Rep(ClassDigit, 2, 2), One(ClassDigit), Opt(ClassTolerance),
       OptRep(ClassDigit, 2, 4) >>

_RE_ALPHA ==
    << Plus(ClassDigit), Opt(ClassDot), Star(ClassDigit), Star(ClassSpace),
       One(ClassUnit), Opt(ClassF), Star(ClassSpace), Opt(ClassTolerance),
       Star(ClassSpace), OptRep(ClassDigit, 2, 4) >>

_RE_RDECIMAL ==
    << Plus(ClassDigit), One(ClassUnit), Plus(ClassDigit), Star(ClassSpace),
       Opt(ClassTolerance), Star(ClassSpace), OptRep(ClassDigit, 2, 4) >>

_RE_ELECTROLYTIC ==
    << Plus(ClassDigit), Opt(ClassDot), Star(ClassDigit), Star(ClassSpace),
       One(ClassMicro), Opt(ClassF), Star(ClassSpace), Opt(ClassSeparator),
       Star(ClassSpace), Rep(ClassDigit, 1, 4), Star(ClassSpace),
       One(ClassV) >>

(***************************************************************************)
(* Conversions between text and numbers                                    *)
(***************************************************************************)
\* int(s) for a run of digits
RECURSIVE ParseInt(_)
ParseInt(s) ==
    IF s = <<>> THEN 0
    ELSE 10 * ParseInt(SubSeq(s, 1, Len(s) - 1)) + DigitValue(s[Len(s)])

\* float(s) for digits, an optional point, digits
ParseFloat(s) ==
    LET point == {i \in DOMAIN s : s[i] = "."}
        frac == IF point = {} THEN 0 ELSE Len(s) - (CHOOSE i \in point : TRUE)
    IN Dec(ParseInt(SelectSeq(s, LAMBDA c : c # ".")), -frac)

\* str(n) for n >= 0
RECURSIVE IntToStr(_)
IntToStr(n) ==
    IF n < 10 THEN <<DecimalDigits[n + 1]>>
    ELSE IntToStr(n \div 10) \o <<DecimalDigits[(n % 10) + 1]>>

\* s.strip()
RECURSIVE Strip(_)
Strip(s) ==
    IF s = <<>> THEN s
    ELSE IF Head(s) \in ClassSpace THEN Strip(Tail(s))
    ELSE IF s[Len(s)] \in ClassSpace THEN Strip(SubSeq(s, 1, Len(s) - 1))
    ELSE s

\* s.lstrip(c)
RECURSIVE LStrip(_, _)
LStrip(s, c) == IF s # <<>> /\ Head(s) = c THEN LStrip(Tail(s), c) ELSE s

\* the concatenation of the texts items[from..to] took
RECURSIVE Group(_, _, _)
Group(m, from, to) ==
    IF from > to THEN <<>> ELSE m[from] \o Group(m, from + 1, to)

(***************************************************************************)
(* decode_capacitor.  A marking holds a few digits, so the value parsed    *)
(* from it and its product with 1, 1000 or 1000000 are the doubles nearest *)
(* to the decimals, and the comparisons below meet no rounding error.      *)
(***************************************************************************)
\* the conversion that divides by 1000 twice over for the microfarads only
\* once
pf_to_units_MicroAsNano(pf) ==
    [pf |-> pf, nf |-> Dec(pf.m, pf.e - 3), uf |-> Dec(pf.m, pf.e - 3)]

pf_to_units(pf) ==
    [pf |-> pf, nf |-> Dec(pf.m, pf.e - 3), uf |-> Dec(pf.m, pf.e - 6)]

nf_to_units(nf) == pf_to_units(Dec(nf.m, nf.e + 3))

uf_to_units(uf) == pf_to_units(Dec(uf.m, uf.e + 6))

\* the guess that takes 1000 pF for a ceramic and 1 microfarad for a film
_guess_type_from_pf_CutsMoved(pf, voltage) ==
    IF DecLess(Dec(1, 6), pf) THEN "electrolytic"
    ELSE IF DecLeq(pf, Dec(1, 3)) THEN "ceramic"
    ELSE "film_box"

\* the guess that takes a capacitor from 1000 pF to 1 microfarad for a film
\* one only when its voltage is 50 V or more
_guess_type_from_pf_VoltageDecides(pf, voltage) ==
    IF DecLeq(Dec(1, 6), pf) THEN "electrolytic"
    ELSE IF DecLess(pf, Dec(1, 3)) THEN "ceramic"
    ELSE IF ~IsNone(voltage) /\ Get(voltage) >= 50 THEN "film_box"
    ELSE "unknown"

\* voltage is None or an integer
_guess_type_from_pf(pf, voltage) ==
    LET uf == Dec(pf.m, pf.e - 6)
    IN IF DecLeq(Dec(1, 0), uf) THEN "electrolytic"
       ELSE IF DecLess(pf, Dec(1, 3)) THEN "ceramic"
       ELSE IF ~IsNone(voltage) /\ Get(voltage) # 0 /\ Get(voltage) >= 50
       THEN "film_box"
       ELSE IF DecLeq(Dec(1, 3), pf) /\ DecLeq(pf, Dec(1, 6))
       THEN "film_box"
       ELSE "unknown"

DecodedCap(capacitance, tolerance_percent, tolerance_letter, voltage_max, cap_type, source_code, confidence) ==
    [capacitance |-> capacitance, tolerance_percent |-> tolerance_percent,
     tolerance_letter |-> tolerance_letter, voltage_max |-> voltage_max,
     cap_type |-> cap_type, source_code |-> source_code,
     confidence |-> confidence]

\* TOLERANCE_CODES.get(tol_letter.upper()) if tol_letter else None
TolerancePercent(tol_letter) ==
    IF tol_letter # <<>> /\ Upper(tol_letter[1]) \in DOMAIN TOLERANCE_CODES
    THEN Some(TOLERANCE_CODES[Upper(tol_letter[1])]) ELSE None

\* int(voltage_str) if voltage_str else None
Voltage(voltage_str) ==
    IF voltage_str # <<>> THEN Some(ParseInt(voltage_str)) ELSE None

\* the tail the three letter-coded grammars share: tolerance, voltage, type
\* and the record
Decoded(pf, tol_letter, voltage_str, marking) ==
    LET tol_pct == TolerancePercent(tol_letter)
        voltage == Voltage(voltage_str)
    IN DecodedCap(pf_to_units(pf), tol_pct,
                  IF ~IsNone(tol_pct) /\ Get(tol_pct) # 0
                  THEN Some(Upper(tol_letter[1])) ELSE None,
                  voltage, _guess_type_from_pf(pf, voltage), marking,
                  100)

\* UNIT_TO_PF[unit_lower], or UNIT_TO_PF[unit_lower + "f"], or None
UnitMultiplier(unit_str) ==
    LET unit_lower == [i \in DOMAIN unit_str |-> Lower(unit_str[i])]
    IN IF unit_lower \in DOMAIN UNIT_TO_PF THEN Some(UNIT_TO_PF[unit_lower])
       ELSE IF unit_lower \o <<"f">> \in DOMAIN UNIT_TO_PF
       THEN Some(UNIT_TO_PF[unit_lower \o <<"f">>])
       ELSE None

\* the bare reading with every multiplier digit a power of ten
_try_eia_PowersOfTen(marking) ==
    LET m == Match(_RE_EIA, marking)
    IN IF IsNone(m) THEN None
       ELSE Some(Decoded(Dec(ParseInt(Get(m)[1]), ParseInt(Get(m)[2])),
                         Get(m)[3], Get(m)[4], marking))

\* each _try_ returns None or the DecodedCap
_try_eia(marking) ==
    LET m == Match(_RE_EIA, marking)
    IN IF IsNone(m) THEN None
       ELSE LET significand == ParseInt(Get(m)[1])
                multiplier == ParseInt(Get(m)[2])
                pf == IF multiplier = 8 THEN Dec(significand, -2)
                      ELSE IF multiplier = 9 THEN Dec(significand, -1)
                      ELSE Dec(significand, multiplier)
            IN Some(Decoded(pf, Get(m)[3], Get(m)[4], marking))

_try_alpha(marking) ==
    LET m == Match(_RE_ALPHA, marking)
    IN IF IsNone(m) THEN None
       ELSE LET value == ParseFloat(Group(Get(m), 1, 3))
                multiplier == UnitMultiplier(Group(Get(m), 5, 6))
            IN IF IsNone(multiplier) THEN None
               ELSE Some(Decoded(Dec(value.m, value.e + Get(multiplier)),
                                 Get(m)[8], Get(m)[10], marking))

_try_rdecimal(marking) ==
    LET m == Match(_RE_RDECIMAL, marking)
    IN IF IsNone(m) THEN None
       ELSE LET value == ParseFloat(Get(m)[1] \o <<".">> \o Get(m)[3])
                multiplier == UnitMultiplier(Get(m)[2])
            IN IF IsNone(multiplier) THEN None
               ELSE Some(Decoded(Dec(value.m, value.e + Get(multiplier)),
                                 Get(m)[5], Get(m)[7], marking))

\* the electrolytic reading with the type guessed from the magnitude
_try_electrolytic_GuessedType(marking) ==
    LET m == Match(_RE_ELECTROLYTIC, marking)
    IN IF IsNone(m) THEN None
       ELSE LET value == ParseFloat(Group(Get(m), 1, 3))
                multiplier == UnitMultiplier(Group(Get(m), 5, 6))
                pf == Dec(value.m, value.e + Get(multiplier))
                voltage == Some(ParseInt(Get(m)[10]))
            IN IF IsNone(multiplier) THEN None
               ELSE Some(DecodedCap(pf_to_units(pf), Some(2000), Some("M"),
                                    voltage, _guess_type_from_pf(pf, voltage),
                                    marking, 95))

_try_electrolytic(marking) ==
    LET m == Match(_RE_ELECTROLYTIC, marking)
    IN IF IsNone(m) THEN None
       ELSE LET value == ParseFloat(Group(Get(m), 1, 3))
                multiplier == UnitMultiplier(Group(Get(m), 5, 6))
            IN IF IsNone(multiplier) THEN None
               ELSE Some(DecodedCap(
                        pf_to_units(Dec(value.m, value.e + Get(multiplier))),
                        Some(2000), Some("M"), Some(ParseInt(Get(m)[10])),
                        "electrolytic", marking, 95))

decode_capacitor(marking) ==
    LET cleaned == Strip(marking)
    IN IF cleaned = <<>> THEN Raise("ValueError")
       ELSE IF ~IsNone(_try_electrolytic(cleaned))
       THEN Return(Get(_try_electrolytic(cleaned)))
       ELSE IF ~IsNone(_try_rdecimal(cleaned))
       THEN Return(Get(_try_rdecimal(cleaned)))
       ELSE IF ~IsNone(_try_alpha(cleaned))
       THEN Return(Get(_try_alpha(cleaned)))
       ELSE IF ~IsNone(_try_eia(cleaned))
       THEN Return(Get(_try_eia(cleaned)))
       ELSE Raise("ValueError")

\* the values of the members of CapType
CapType == {"film_box", "ceramic", "electrolytic", "tantalum", "unknown"}

\* the override that resets the confidence of the record it builds
decode_with_type_FullConfidence(marking, cap_type) ==
    LET decoded == decode_capacitor(marking)
    IN IF ~decoded.ok THEN decoded
       ELSE IF ~IsNone(cap_type)
       THEN Return(DecodedCap(decoded.value.capacitance,
                              decoded.value.tolerance_percent,
                              decoded.value.tolerance_letter,
                              decoded.value.voltage_max, Get(cap_type),
                              decoded.value.source_code, 100))
       ELSE decoded

\* cap_type is None or a member of CapType
decode_with_type(marking, cap_type) ==
    LET decoded == decode_capacitor(marking)
    IN IF ~decoded.ok THEN decoded
       ELSE IF ~IsNone(cap_type)
       THEN Return(DecodedCap(decoded.value.capacitance,
                              decoded.value.tolerance_percent,
                              decoded.value.tolerance_letter,
                              decoded.value.voltage_max, Get(cap_type),
                              decoded.value.source_code,
                              decoded.value.confidence))
       ELSE decoded

(***************************************************************************)
(* encode_capacitor                                                        *)
(***************************************************************************)
\* x >= y and x < y on doubles
Geq(x, y, ulp) == DecLess(y, x) \/ (DecEq(x, y) /\ ulp >= 0)

Less(x, y, ulp) == ~Geq(x, y, ulp)

\* str(n)
Str(n) == IF n < 0 THEN <<"-">> \o IntToStr(-n) ELSE IntToStr(n)

\* f"{n:02d}" for n >= 0
Str02(n) == IF n < 10 THEN <<"0">> \o IntToStr(n) ELSE IntToStr(n)

RECURSIVE Zeros(_)
Zeros(n) == IF n <= 0 THEN <<>> ELSE <<"0">> \o Zeros(n - 1)

\* f"{x:.3g}" for 0 < x < 1: three significant digits, no trailing zeros,
\* the exponent form below 0.0001
Format3g(x, ulp) ==
    LET n == Norm(x)
        digits == NumDigits(n.m)
        rounded == IF digits <= 3 THEN n.m
                   ELSE Round(Dec(n.m, 3 - digits), ulp)
        carry == digits > 3 /\ rounded = 1000
        sig == Norm(Dec(rounded, 0)).m
        exp == Log10Floor(n) + (IF carry THEN 1 ELSE 0)
        text == IntToStr(sig)
    IN IF exp < -4
       THEN <<Head(text)>>
            \o (IF Len(text) > 1 THEN <<".">> \o Tail(text) ELSE <<>>)
            \o <<"e", "-">> \o Str02(-exp)
       ELSE IF exp >= 0 THEN text
       ELSE <<"0", ".">> \o Zeros(-exp - 1) \o text

_alpha_fmt(value, unit, noise) ==
    IF IsInteger(value) THEN IntToStr(IntPart(value)) \o <<unit>>
    ELSE LET int_part == IntPart(value)
             frac_part == Dec(value.m - int_part * Pow10(-value.e), value.e)
             frac_str == LStrip(LStrip(Format3g(frac_part, noise.ulp), "0"), ".")
         IN IF int_part > 0 THEN IntToStr(int_part) \o <<unit>> \o frac_str
            ELSE <<"0", unit>> \o frac_str

_encode_alpha(pf, noise) ==
    LET uf == Dec(pf.m, pf.e - 6)
        nf == Dec(pf.m, pf.e - 3)
    IN IF Geq(uf, Dec(1, -1), noise.ulp) THEN _alpha_fmt(uf, "u", noise)
       ELSE IF Geq(nf, Dec(1, -1), noise.ulp) THEN _alpha_fmt(nf, "n", noise)
       ELSE _alpha_fmt(pf, "p", noise)

\* the for loop over range(mult, 10): None when no multiplier is accepted
RECURSIVE SearchEia(_, _, _)
SearchEia(mult, pf, ulp) ==
    IF mult > 9 THEN None
    ELSE LET sig == Dec(pf.m, pf.e - mult)
             sig_int == Round(sig, ulp)
         IN IF /\ Between(Dec(995, -2), sig, Dec(995, -1), ulp)
               /\ DecLess(DecAbsDiff(Dec(sig_int, mult), pf),
                          Dec(pf.m, pf.e - 3))
            THEN Some(IntToStr(sig_int) \o IntToStr(mult))
            ELSE SearchEia(mult + 1, pf, ulp)

_encode_eia(pf, noise) ==
    IF pf.m <= 0 THEN Raise("ValueError")
    ELSE IF Less(pf, Dec(1, 1), noise.ulp)
    THEN LET sig == Round(pf, noise.ulp)
         IN IF sig >= 10 THEN Return(IntToStr(sig) \o <<"0">>)
            ELSE IF sig > 0 THEN Return(Str02(sig) \o <<"0">>)
            ELSE Raise("ValueError")
    ELSE LET found == SearchEia(0, pf, noise.ulp)
         IN IF IsNone(found) THEN Raise("ValueError") ELSE Return(Get(found))

\* pf, nf, uf and voltage are None or a value
encode_capacitor(pf, nf, uf, tolerance_percent, voltage, noise) ==
    LET provided == Len(pf) + Len(nf) + Len(uf)
        pf_val == IF ~IsNone(pf) THEN Get(pf)
                  ELSE IF ~IsNone(nf) THEN Dec(Get(nf).m, Get(nf).e + 3)
                  ELSE Dec(Get(uf).m, Get(uf).e + 6)
    IN IF provided # 1 THEN Raise("ValueError")
       ELSE IF pf_val.m <= 0 THEN Raise("ValueError")
       ELSE IF tolerance_percent \notin DOMAIN TOLERANCE_TO_LETTER
       THEN Raise("ValueError")
       ELSE LET tol_letter == TOLERANCE_TO_LETTER[tolerance_percent]
                eia_code == _encode_eia(pf_val, noise)
                alpha_code == _encode_alpha(pf_val, noise)
                voltage_str == IF ~IsNone(voltage) /\ Get(voltage) # 0
                               THEN Str(Get(voltage)) ELSE <<>>
            IN IF ~eia_code.ok THEN eia_code
               ELSE Return([capacitance |-> pf_to_units(pf_val),
                            eia_code |-> eia_code.value,
                            alpha_code |-> alpha_code,
                            full_film_code |->
                                eia_code.value \o <<tol_letter>> \o voltage_str,
                            full_alpha_code |->
                                alpha_code \o <<tol_letter>> \o voltage_str,
                            tolerance_letter |-> tol_letter,
                            voltage |-> voltage])

(***************************************************************************)
(* Callers: the arguments a call is made with                              *)
(***************************************************************************)
MaxSig == 999

MaxBands == 6

MultiplierKeys == {MULTIPLIER_TO_COLOR[i].key : i \in DOMAIN MULTIPLIER_TO_COLOR}

\* s * m for a significand s and a defined multiplier m, and zero
OhmsInputs == {Dec(s, mult.e) : s \in 0..MaxSig, mult \in MultiplierKeys}

\* the eight supported tolerances and 3 %, which has no colour
ToleranceInputs == DOMAIN TOLERANCE_TO_COLOR \cup {300}

\* the rounding error a call can meet: a half and a window edge end in a 5,
\* so no other decimal sits on one; ties names the outcomes of an equal
\* distance to two table values
NoiseOf(x, ties) ==
    {[ulp |-> ulp, tie |-> tie] :
        ulp \in (IF x.m % 10 = 5 THEN {-1, 0, 1} ELSE {0}), tie \in ties}

\* every magnitude at the default tolerance, a few at every tolerance, a
\* negative one among them
EncodeInputs ==
    {<<ohms, 100>> : ohms \in OhmsInputs}
    \cup {<<Dec(s, mult.e), tolerance_percent>> :
            s \in {-47, 0, 47, 475, 995}, mult \in MultiplierKeys,
            tolerance_percent \in ToleranceInputs}

DigitNames ==
    {DIGIT_TO_COLOR[d] : d \in DOMAIN DIGIT_TO_COLOR} \cup {"grey", "gold", "pink"}

MultiplierNames == DOMAIN MULTIPLIER_COLORS \cup {"pink", "Yellow"}

ToleranceNames == DOMAIN TOLERANCE_COLORS \cup {"black", "pink"}

\* every digit combination, every multiplier and tolerance name (known to the
\* tables or not), and every length from 0 to MaxBands
BandInputs ==
    {<<d1, d2, d3, mu, to>> :
        d1 \in DigitNames, d2 \in DigitNames, d3 \in DigitNames,
        mu \in {"red", "silver"}, to \in {"brown", "pink"}}
    \cup {<<d1, d2, d3, mu, to>> :
        d1 \in {"yellow", "black"}, d2 \in {"violet", " violet ", "pink"},
        d3 \in {"black", "green"}, mu \in MultiplierNames, to \in ToleranceNames}
    \cup {<<d1, d2, mu, to>> :
        d1 \in DigitNames, d2 \in DigitNames,
        mu \in MultiplierNames, to \in {"gold", "black", "pink"}}
    \cup {<<d1, d2, mu, to>> :
        d1 \in {"yellow", "black"}, d2 \in {"violet", "pink"},
        mu \in MultiplierNames, to \in ToleranceNames}
    \cup UNION {[1..n -> {"red", "gold", "pink"}] : n \in (0..MaxBands) \ {4, 5}}

NoCall == [op |-> "", args |-> <<>>, noise |-> <<>>]

NoResult == Raise("")

Init ==
    /\ pc = "idle"
    /\ call = NoCall
    /\ result = NoResult
    /\ prev = None

DecodeResistor ==
    /\ pc = "idle"
    /\ \E bands \in BandInputs, noise \in NoiseOf(Dec(0, 0), {0, 1}) :
        /\ call' = [op |-> "decode_resistor", args |-> <<bands>>,
                    noise |-> noise]
        /\ result' = decode_resistor(bands, noise)
    /\ pc' = "done"
    /\ UNCHANGED prev

EncodeResistor ==
    /\ pc = "idle"
    /\ \E args \in EncodeInputs : \E noise \in NoiseOf(args[1], {0}) :
        /\ call' = [op |-> "encode_resistor", args |-> args, noise |-> noise]
        /\ result' = encode_resistor(args[1], args[2], noise)
    /\ pc' = "done"
    /\ UNCHANGED prev

\* decode_resistor(list(enc.bands_5)), the round trip of test_r_encode
DecodeBands5 ==
    /\ pc = "done"
    /\ call.op = "encode_resistor"
    /\ result.ok
    /\ prev' = Some([call |-> call, result |-> result])
    /\ \E noise \in NoiseOf(Dec(0, 0), {0, 1}) :
        /\ call' = [op |-> "decode_resistor",
                    args |-> <<result.value.bands_5>>, noise |-> noise]
        /\ result' = decode_resistor(result.value.bands_5, noise)
    /\ pc' = "done"

\* the capacitances encode_capacitor is called with, in each unit
MaxCapSig == 110

CapExponents == -2..3

CapUnits == {"pf", "nf", "uf"}

\* the five supported tolerances and 3 %, which has no letter
CapToleranceInputs == DOMAIN TOLERANCE_TO_LETTER \cup {300}

\* no voltage, voltages of one to four digits, zero and a negative one
VoltageInputs ==
    {None, Some(5), Some(10), Some(100), Some(9999), Some(0), Some(-5)}

CapArgs(unit, value, tolerance_percent, voltage) ==
    [pf |-> IF unit = "pf" THEN Some(value) ELSE None,
     nf |-> IF unit = "nf" THEN Some(value) ELSE None,
     uf |-> IF unit = "uf" THEN Some(value) ELSE None,
     tolerance_percent |-> tolerance_percent, voltage |-> voltage]

\* calls with no magnitude, with two and with three, and with one that is
\* zero or negative
BadCapInputs ==
    {[pf |-> pf, nf |-> nf, uf |-> uf, tolerance_percent |-> tolerance_percent,
      voltage |-> voltage] :
        pf \in {None, Some(Dec(47000, 0))}, nf \in {None, Some(Dec(47, 0))},
        uf \in {None, Some(Dec(47, -3))},
        tolerance_percent \in CapToleranceInputs,
        voltage \in {None, Some(100)}}
    \cup {CapArgs(unit, Dec(k, 0), tolerance_percent, None) :
            unit \in CapUnits, k \in {0, -47},
            tolerance_percent \in CapToleranceInputs}

\* every magnitude at the default tolerance without a voltage, a few at
\* every tolerance and voltage, 1000.01 pF and 4999.6 pF, and the calls of
\* BadCapInputs
CapInputs ==
    BadCapInputs
    \cup {CapArgs("pf", Dec(49996, -1), 1000, None)}
    \cup
    {CapArgs(unit, Dec(k, e), 1000, None) :
        unit \in CapUnits, k \in 1..MaxCapSig, e \in CapExponents}
    \cup {CapArgs(unit, Dec(k, e), tolerance_percent, voltage) :
            unit \in CapUnits, k \in {1, 47}, e \in CapExponents,
            tolerance_percent \in CapToleranceInputs,
            voltage \in VoltageInputs}
    \cup {CapArgs("pf", Dec(100001, -2), 1000, Some(100))}

\* the magnitude among the arguments
Magnitude(args) ==
    IF ~IsNone(args.pf) THEN Get(args.pf)
    ELSE IF ~IsNone(args.nf) THEN Get(args.nf)
    ELSE IF ~IsNone(args.uf) THEN Get(args.uf)
    ELSE Dec(0, 0)

EncodeCapacitor ==
    /\ pc = "idle"
    /\ \E args \in CapInputs : \E noise \in NoiseOf(Magnitude(args), {0}) :
        /\ call' = [op |-> "encode_capacitor", args |-> args, noise |-> noise]
        /\ result' = encode_capacitor(args.pf, args.nf, args.uf,
                                      args.tolerance_percent, args.voltage,
                                      noise)
    /\ pc' = "done"
    /\ UNCHANGED prev

\* decode_capacitor(enc.full_film_code)
DecodeFilmCode ==
    /\ pc = "done"
    /\ call.op = "encode_capacitor"
    /\ result.ok
    /\ prev' = Some([call |-> call, result |-> result])
    /\ call' = [op |-> "decode_capacitor",
                args |-> <<result.value.full_film_code>>,
                noise |-> [ulp |-> 0, tie |-> 0]]
    /\ result' = decode_capacitor(result.value.full_film_code)
    /\ pc' = "done"

\* decode_capacitor(enc.full_alpha_code)
DecodeAlphaCode ==
    /\ pc = "done"
    /\ call.op = "encode_capacitor"
    /\ result.ok
    /\ prev' = Some([call |-> call, result |-> result])
    /\ call' = [op |-> "decode_capacitor",
                args |-> <<result.value.full_alpha_code>>,
                noise |-> [ulp |-> 0, tie |-> 0]]
    /\ result' = decode_capacitor(result.value.full_alpha_code)
    /\ pc' = "done"

\* the texts of the parts a marking is put together from
Text(parts) == {Group(p, 1, Len(p)) : p \in parts}

Numbers(ns) == {IntToStr(n) : n \in ns}

Blank == <<>>

\* the markings of the electrolytic style: a number, a unit, an F, a
\* separator, a voltage and a V, each present or not, well formed or not
ElectrolyticInputs ==
    Text({<<number, sp, unit, f, sep, volt, v>> :
            number \in Numbers({0, 47}) \cup {<<"0", ".", "4", "7">>},
            sp \in {Blank, <<" ">>},
            unit \in {<<"u">>, <<"µ">>, <<"μ">>, <<"U">>, <<"n">>},
            f \in {Blank, <<"F">>},
            sep \in {Blank, <<" ">>, <<"/">>, <<",", " ">>},
            volt \in {Blank} \cup Numbers({5, 25, 10000}),
            v \in {Blank, <<"V">>, <<"v">>}})

\* the markings of the alphanumeric and R-decimal styles: a number, a unit,
\* an f, fraction digits, a tolerance letter and a voltage
AlphaInputs ==
    Text({<<number, unit, f, frac, tol, volt>> :
            number \in Numbers({47}) \cup {<<"4", ".", "7">>},
            unit \in {Blank, <<"p">>, <<"n">>, <<"u">>, <<"µ">>, <<"μ">>,
                      <<"m">>},
            f \in {Blank, <<"f">>},
            frac \in {Blank} \cup Numbers({7, 70}),
            tol \in {Blank, <<"K">>, <<"k">>, <<"Z">>, <<"A">>, <<"X">>,
                     <<" ", "K", " ">>},
            volt \in {Blank} \cup Numbers({5, 50, 1000, 12345})})

\* magnitudes on both sides of 1000 pF and of 1 microfarad, in every unit
MagnitudeInputs ==
    Text({<<number, frac, unit, f>> :
            number \in Numbers({0, 1, 999, 1000, 999999, 1000000}),
            frac \in {Blank, <<".", "0">>, <<".", "9">>, <<".">>},
            unit \in {<<"p">>, <<"n">>, <<"u">>},
            f \in {Blank, <<"F">>}})
    \cup Text({<<number, unit, frac>> :
            number \in Numbers({0, 1, 999}),
            unit \in {<<"p">>, <<"n">>, <<"u">>},
            frac \in Numbers({0, 9}) \cup {<<"0", "0", "1">>}})
    \cup Text({<<<<"0", ".">>, number, unit>> :
            number \in Numbers({1, 999, 999999}) \cup {<<"0", "0", "1">>},
            unit \in {<<"p">>, <<"n">>, <<"u">>}})

\* the markings of the bare style: three digits, a tolerance letter and a
\* voltage
EiaInputs ==
    Text({<<IntToStr(d1), IntToStr(d2), IntToStr(k), tol, volt>> :
            d1 \in {0, 1, 4}, d2 \in {0, 7}, k \in 0..9,
            tol \in {Blank, <<"K">>, <<"j">>, <<"Z">>, <<"E">>, <<"X">>},
            volt \in {Blank} \cup Numbers({5, 50, 1000, 10000})})

\* the markings decode_capacitor is called with, the empty and the blank
\* ones included, and some with spaces around them
MarkingInputs ==
    ElectrolyticInputs \cup AlphaInputs \cup MagnitudeInputs \cup EiaInputs
    \cup {Blank, <<" ">>, <<" ", " ">>, <<"X", "Y", "Z", "Z", "Y">>}
    \cup {<<" ">> \o marking \o <<" ">> :
            marking \in {<<"4", "7", "3">>, <<"4", "n", "7">>, <<"4", "7", "n">>,
                         <<"4", "7", "u", "F", " ", "2", "5", "V">>}}

\* decode_capacitor(marking)
DecodeCapacitor ==
    /\ pc = "idle"
    /\ \E marking \in MarkingInputs :
        /\ call' = [op |-> "decode_capacitor", args |-> <<marking>>,
                    noise |-> [ulp |-> 0, tie |-> 0]]
        /\ result' = decode_capacitor(marking)
    /\ pc' = "done"
    /\ UNCHANGED prev

\* decode_with_type(marking, cap_type) on the marking decode_capacitor has
\* just been called with
DecodeWithType ==
    /\ pc = "done"
    /\ call.op = "decode_capacitor"
    /\ IsNone(prev)
    /\ prev' = Some([call |-> call, result |-> result])
    /\ \E cap_type \in {None} \cup {Some(t) : t \in CapType} :
        /\ call' = [op |-> "decode_with_type",
                    args |-> <<call.args[1], cap_type>>,
                    noise |-> [ulp |-> 0, tie |-> 0]]
        /\ result' = decode_with_type(call.args[1], cap_type)
    /\ pc' = "done"

\* encode_resistor(4700, tolerance_percent) with the tolerance decode_resistor
\* has just returned
EncodeDecodedTolerance ==
    /\ pc = "done"
    /\ call.op = "decode_resistor"
    /\ IsNone(prev)
    /\ result.ok
    /\ ~IsNone(result.value.tolerance_percent)
    /\ prev' = Some([call |-> call, result |-> result])
    /\ LET args == <<Dec(47, 2), Get(result.value.tolerance_percent)>>
           noise == [ulp |-> 0, tie |-> 0]
       IN /\ call' = [op |-> "encode_resistor", args |-> args,
                      noise |-> noise]
          /\ result' = encode_resistor(args[1], args[2], noise)
    /\ pc' = "done"

\* encode_capacitor(nf=47, tolerance_percent=...) with the tolerance
\* decode_capacitor has just returned
EncodeDecodedCapTolerance ==
    /\ pc = "done"
    /\ call.op = "decode_capacitor"
    /\ IsNone(prev)
    /\ result.ok
    /\ ~IsNone(result.value.tolerance_percent)
    /\ prev' = Some([call |-> call, result |-> result])
    /\ LET args == CapArgs("nf", Dec(47, 0),
                           Get(result.value.tolerance_percent), None)
           noise == [ulp |-> 0, tie |-> 0]
       IN /\ call' = [op |-> "encode_capacitor", args |-> args,
                      noise |-> noise]
          /\ result' = encode_capacitor(args.pf, args.nf, args.uf,
                                        args.tolerance_percent, args.voltage,
                                        noise)
    /\ pc' = "done"

\* the magnitudes the unit conversions are called with
UnitInputs == {Dec(k, e) : k \in 1..MaxCapSig, e \in CapExponents}

PfToUnits ==
    /\ pc = "idle"
    /\ \E pf \in UnitInputs :
        /\ call' = [op |-> "pf_to_units", args |-> <<pf>>,
                    noise |-> [ulp |-> 0, tie |-> 0]]
        /\ result' = Return(pf_to_units(pf))
    /\ pc' = "done"
    /\ UNCHANGED prev

NfToUnits ==
    /\ pc = "idle"
    /\ \E nf \in UnitInputs :
        /\ call' = [op |-> "nf_to_units", args |-> <<nf>>,
                    noise |-> [ulp |-> 0, tie |-> 0]]
        /\ result' = Return(nf_to_units(nf))
    /\ pc' = "done"
    /\ UNCHANGED prev

UfToUnits ==
    /\ pc = "idle"
    /\ \E uf \in UnitInputs :
        /\ call' = [op |-> "uf_to_units", args |-> <<uf>>,
                    noise |-> [ulp |-> 0, tie |-> 0]]
        /\ result' = Return(uf_to_units(uf))
    /\ pc' = "done"
    /\ UNCHANGED prev

\* a few calls of each operation, some that succeed and some that fail
Calls ==
    [decode_resistor |->
        {[op |-> "decode_resistor", args |-> <<bands>>, noise |-> noise] :
            bands \in {<<"yellow", "violet", "black", "red", "brown">>,
                       <<"brown", "black", "red", "gold">>,
                       <<"pink", "black", "red", "gold">>, <<"red">>},
            noise \in NoiseOf(Dec(0, 0), {0, 1})},
     encode_resistor |->
        UNION {{[op |-> "encode_resistor", args |-> args, noise |-> noise] :
                    noise \in NoiseOf(args[1], {0})} :
                args \in {<<Dec(47, 3), 500>>, <<Dec(475, 0), 100>>,
                          <<Dec(9995, -1), 100>>, <<Dec(47, 3), 300>>,
                          <<Dec(-47, 0), 100>>}},
     find_e_series |->
        UNION {{[op |-> "find_e_series", args |-> <<ohms>>, noise |-> noise] :
                    noise \in NoiseOf(ohms, {0, 1})} :
                ohms \in {Dec(47, 2), Dec(1185, -3), Dec(1005, -3), Dec(0, 0)}},
     decode_capacitor |->
        {[op |-> "decode_capacitor", args |-> <<marking>>,
          noise |-> [ulp |-> 0, tie |-> 0]] :
            marking \in {<<"4", "7", "3">>, <<"4", "7", "3", "K", "1", "0", "0">>,
                         <<"4", "n", "7">>,
                         <<"4", "7", "u", "F", " ", "2", "5", "V">>, Blank}},
     encode_capacitor |->
        UNION {{[op |-> "encode_capacitor", args |-> args, noise |-> noise] :
                    noise \in NoiseOf(Magnitude(args), {0})} :
                args \in {CapArgs("nf", Dec(47, 0), 1000, Some(100)),
                          CapArgs("pf", Dec(45, -1), 500, None),
                          CapArgs("uf", Dec(10, 0), 2000, Some(25)),
                          CapArgs("nf", Dec(47, 0), 300, None),
                          CapArgs("pf", Dec(0, 0), 1000, None)}}]

\* the call c, run
Apply(c) ==
    CASE c.op = "decode_resistor" -> decode_resistor(c.args[1], c.noise)
      [] c.op = "encode_resistor" ->
            encode_resistor(c.args[1], c.args[2], c.noise)
      [] c.op = "find_e_series" -> Return(find_e_series(c.args[1], c.noise))
      [] c.op = "decode_capacitor" -> decode_capacitor(c.args[1])
      [] c.op = "encode_capacitor" ->
            encode_capacitor(c.args.pf, c.args.nf, c.args.uf,
                             c.args.tolerance_percent, c.args.voltage, c.noise)

\* a call of any operation: the first one, or one that runs between the
\* first one and its repetition
AnyCall ==
    /\ pc = "idle" \/ (pc = "done" /\ IsNone(prev)) \/ pc = "interleaved"
    /\ \E op \in DOMAIN Calls : \E c \in Calls[op] :
        /\ call' = c
        /\ result' = Apply(c)
    /\ prev' = IF pc = "done" THEN Some([call |-> call, result |-> result])
               ELSE prev
    /\ pc' = IF pc = "idle" THEN "done" ELSE "interleaved"

\* a repetition that answers a decode_capacitor call from the record the
\* decode_capacitor call before it has left behind
RepeatCall_SharedRecord ==
    /\ pc = "interleaved"
    /\ call' = Get(prev).call
    /\ result' = IF call.op = "decode_capacitor"
                    /\ Get(prev).call.op = "decode_capacitor"
                 THEN result ELSE Apply(Get(prev).call)
    /\ pc' = "done"
    /\ UNCHANGED prev

\* the first call again, with the same arguments, after the calls between
RepeatCall ==
    /\ pc = "interleaved"
    /\ call' = Get(prev).call
    /\ result' = Apply(Get(prev).call)
    /\ pc' = "done"
    /\ UNCHANGED prev

\* the magnitudes find_e_series is called with: up to three significant
\* digits, and the four-digit magnitudes below one ohm that end in a 5, the
\* ones round(significand, 2) has to break
SeriesInputs ==
    {Dec(s, 0) : s \in 0..MaxSig}
    \cup {Dec(10 * s + 5, -4) : s \in 100..MaxSig}

\* find_e_series(ohms)
FindESeries ==
    /\ pc = "idle"
    /\ \E ohms \in SeriesInputs : \E noise \in NoiseOf(ohms, {0, 1}) :
        /\ call' = [op |-> "find_e_series", args |-> <<ohms>>, noise |-> noise]
        /\ result' = Return(find_e_series(ohms, noise))
    /\ pc' = "done"
    /\ UNCHANGED prev

\* find_e_series(10 * ohms) after find_e_series(ohms)
FindESeriesTimes10 ==
    /\ pc = "done"
    /\ call.op = "find_e_series"
    /\ IsNone(prev)
    /\ prev' = Some([call |-> call, result |-> result])
    /\ LET ohms == DecMul10(call.args[1], 1)
       IN \E noise \in NoiseOf(ohms, {0, 1}) :
           /\ call' = [op |-> "find_e_series", args |-> <<ohms>>,
                       noise |-> noise]
           /\ result' = Return(find_e_series(ohms, noise))
    /\ pc' = "done"

Finish ==
    /\ pc = "done"
    /\ pc' = "idle"
    /\ call' = NoCall
    /\ result' = NoResult
    /\ prev' = None

NextDecode == DecodeResistor \/ Finish

SpecDecode == Init /\ [][NextDecode]_vars

NextEncode == EncodeResistor \/ DecodeBands5 \/ Finish

SpecEncode == Init /\ [][NextEncode]_vars

NextSeries == FindESeries \/ FindESeriesTimes10 \/ Finish

SpecSeries == Init /\ [][NextSeries]_vars

NextCapacitor == EncodeCapacitor \/ DecodeFilmCode \/ DecodeAlphaCode \/ Finish

SpecCapacitor == Init /\ [][NextCapacitor]_vars

NextTolerance ==
    \/ EncodeResistor
    \/ DecodeBands5
    \/ EncodeCapacitor
    \/ DecodeFilmCode
    \/ Finish

SpecTolerance == Init /\ [][NextTolerance]_vars

NextMarking == DecodeCapacitor \/ DecodeWithType \/ Finish

SpecMarking == Init /\ [][NextMarking]_vars

NextMagnitude == DecodeResistor \/ DecodeCapacitor \/ Finish

SpecMagnitude == Init /\ [][NextMagnitude]_vars

NextClosedSet ==
    \/ DecodeResistor
    \/ EncodeDecodedTolerance
    \/ DecodeCapacitor
    \/ EncodeDecodedCapTolerance
    \/ Finish

SpecClosedSet == Init /\ [][NextClosedSet]_vars

NextUnits ==
    \/ PfToUnits
    \/ NfToUnits
    \/ UfToUnits
    \/ EncodeCapacitor
    \/ DecodeCapacitor
    \/ DecodeWithType
    \/ Finish

SpecUnits == Init /\ [][NextUnits]_vars

NextInterleaved == AnyCall \/ RepeatCall \/ Finish

SpecInterleaved == Init /\ [][NextInterleaved]_vars

(***************************************************************************)
(* Properties                                                              *)
(***************************************************************************)
DecodeDone == pc = "done" /\ call.op = "decode_resistor"

EncodeDone == pc = "done" /\ call.op = "encode_resistor"

SeriesDone == pc = "done" /\ call.op = "find_e_series"

\* decode_resistor has just run on the bands_5 of the encode_resistor in prev
RoundTripDone ==
    DecodeDone /\ ~IsNone(prev) /\ Get(prev).call.op = "encode_resistor"

\* abs(x - y) / y <= 0.001
Within01Percent(x, y) ==
    /\ Abs(Log10Floor(x) - Log10Floor(y)) <= 1
    /\ DecLeq(DecAbsDiff(x, y), Dec(y.m, y.e - 3))

\* the colours of bands, normalised, are all known to the table of their
\* position
Recognized(bands) ==
    LET n == [i \in DOMAIN bands |-> StripLower(bands[i])]
        digits == Len(n) - 2
    IN /\ Len(n) \in {4, 5}
       /\ \A i \in 1..digits : n[i] \in DOMAIN DIGIT_COLORS
       /\ n[digits + 1] \in DOMAIN MULTIPLIER_COLORS
       /\ n[digits + 2] \in DOMAIN TOLERANCE_COLORS

\* C1: for ohms = s * m with s in 10..999, m a defined multiplier and a
\* supported tolerance, encode_resistor succeeds, and decode_resistor of its
\* bands_5 returns ohms within 0.1 % of the encoded ohms.
C1_ResistorRoundTrip ==
    /\ (/\ EncodeDone
        /\ call.args[1].m \in 10..999
        /\ call.args[2] \in DOMAIN TOLERANCE_TO_COLOR) => result.ok
    /\ (RoundTripDone /\ Get(prev).call.args[1].m \in 10..999) =>
            /\ result.ok
            /\ Within01Percent(result.value.ohms, Get(prev).call.args[1])

\* the multiplier a band stands for: gold 0.1, silver 0.01, the table otherwise
MultiplierOf(color) ==
    IF color = "gold" THEN Dec(1, -1)
    ELSE IF color = "silver" THEN Dec(1, -2)
    ELSE MULTIPLIER_COLORS[color]

\* C2: for 5 recognized bands decode_resistor returns ohms = (100*d1 + 10*d2
\* + d3) * multiplier(band 4) and tolerance(band 5); for 4 recognized bands
\* ohms = (10*d1 + d2) * multiplier(band 3) and tolerance(band 4); gold and
\* silver multiplier bands stand for 0.1 and 0.01.
C2_ValueFormula ==
    (DecodeDone /\ Recognized(call.args[1])) =>
        LET n == [i \in DOMAIN call.args[1] |-> StripLower(call.args[1][i])]
            d(i) == DIGIT_COLORS[n[i]]
            digits == IF Len(n) = 5 THEN 100 * d(1) + 10 * d(2) + d(3)
                      ELSE 10 * d(1) + d(2)
            mult == MultiplierOf(n[Len(n) - 1])
        IN /\ result.ok
           /\ DecEq(result.value.ohms, Dec(digits * mult.m, mult.e))
           /\ result.value.tolerance_percent = Some(TOLERANCE_COLORS[n[Len(n)]])

\* five recognized bands with a gold multiplier, and four with a silver one,
\* have been decoded
C2_Witness ==
    /\ DecodeDone
    /\ Recognized(call.args[1])
    /\ \/ Len(call.args[1]) = 5 /\ call.args[1][4] = "gold"
       \/ Len(call.args[1]) = 4 /\ call.args[1][3] = "silver"
    /\ result.ok
    /\ result.value.ohms.m > 0

\* C3: decode_resistor fails with an input error, and returns no
\* ResistorValue, for every band sequence whose length is not 4 or 5.
C3_WrongBandCountFails ==
    (DecodeDone /\ Len(call.args[1]) \notin {4, 5}) =>
        ~result.ok /\ result.raises = "ValueError"

\* six bands of known colours have been refused
C3_Witness ==
    /\ DecodeDone
    /\ Len(call.args[1]) = 6
    /\ \A i \in 1..6 : call.args[1][i] = "red"
    /\ ~result.ok

\* C4: decode_resistor fails whenever one of its 4 or 5 bands is a colour
\* unknown for its position: a digit band, the multiplier band or the
\* tolerance band.
C4_UnknownColorFails ==
    (/\ DecodeDone
     /\ Len(call.args[1]) \in {4, 5}
     /\ ~Recognized(call.args[1])) => ~result.ok

\* decode_capacitor has just run on a marking of the encode_capacitor in prev
CapRoundTripDone ==
    /\ pc = "done"
    /\ call.op = "decode_capacitor"
    /\ ~IsNone(prev)
    /\ Get(prev).call.op = "encode_capacitor"

FilmRoundTripDone ==
    CapRoundTripDone /\ call.args[1] = Get(prev).result.value.full_film_code

AlphaRoundTripDone ==
    CapRoundTripDone /\ call.args[1] = Get(prev).result.value.full_alpha_code

\* the voltage is absent or in 10..9999
VoltageInRange(voltage) == IsNone(voltage) \/ Get(voltage) \in 10..9999

\* C5: for each of the 8 resistor tolerances t and every encodable ohms,
\* decode_resistor of the bands_5 of encode_resistor(ohms, t) returns the
\* tolerance t; for each of the 5 capacitor tolerances t, every encodable
\* capacitance and a voltage absent or in 10..9999, decode_capacitor of the
\* full_film_code of encode_capacitor returns the tolerance t.
C5_ToleranceSymmetry ==
    /\ RoundTripDone =>
            /\ result.ok
            /\ result.value.tolerance_percent = Some(Get(prev).call.args[2])
    /\ (/\ FilmRoundTripDone
        /\ VoltageInRange(Get(prev).call.args.voltage)) =>
            /\ result.ok
            /\ result.value.tolerance_percent
                   = Some(Get(prev).call.args.tolerance_percent)

\* a film code with the letter of 1 % and a four-digit voltage, made for a
\* capacitance given in nanofarads, has been decoded
C5_Witness ==
    /\ FilmRoundTripDone
    /\ Get(prev).call.args.tolerance_percent = 100
    /\ Get(prev).call.args.voltage = Some(9999)
    /\ ~IsNone(Get(prev).call.args.nf)
    /\ result.ok
    /\ result.value.tolerance_letter = Some("F")

\* C6: for each of the 5 capacitor tolerances t, every encodable capacitance
\* and a voltage absent or in 10..9999, decode_capacitor of the
\* full_alpha_code of encode_capacitor succeeds and returns the tolerance t.
C6_AlphaToleranceSymmetry ==
    (/\ AlphaRoundTripDone
     /\ VoltageInRange(Get(prev).call.args.voltage)) =>
        /\ result.ok
        /\ result.value.tolerance_percent
               = Some(Get(prev).call.args.tolerance_percent)

\* C7: for every capacitance encode_capacitor succeeds on, with a voltage
\* absent or in 10..9999, decode_capacitor of the full_film_code returns
\* picofarads within 0.1 % of the encoded picofarads.
C7_EiaRoundTrip ==
    (/\ FilmRoundTripDone
     /\ VoltageInRange(Get(prev).call.args.voltage)) =>
        /\ result.ok
        /\ Within01Percent(result.value.capacitance.pf,
                           Get(prev).result.value.capacitance.pf)

ExactlyOne(a, b) == IsNone(a) # IsNone(b)

\* C8: exactly one of series name and nearest standard value is populated in
\* every result of find_e_series and in every ResistorValue decode_resistor
\* returns for recognized bands.
C8_ExactlyOnePopulated ==
    /\ SeriesDone =>
            ExactlyOne(result.value.series_name, result.value.nearest)
    /\ (DecodeDone /\ Recognized(call.args[1])) =>
            /\ result.ok
            /\ ExactlyOne(result.value.e_series_match,
                          result.value.nearest_standard)

\* C9: for a positive magnitude v, find_e_series(v) and find_e_series(10*v)
\* return the same series name, or both none.
C9_DecadeInvariance ==
    (SeriesDone /\ ~IsNone(prev) /\ Get(prev).call.args[1].m > 0) =>
        result.value.series_name = Get(prev).result.value.series_name

\* C10: for a positive magnitude v in none of the four series, no E96 value
\* (a tabulated significand times a power of ten) is closer to v than the
\* nearest value find_e_series returns.  The decades next to the one of v
\* hold every candidate: the values of farther decades lie farther away.
C10_NearestIsNearest ==
    (/\ SeriesDone
     /\ call.args[1].m > 0
     /\ IsNone(result.value.series_name)) =>
        /\ ~IsNone(result.value.nearest)
        /\ LET v == call.args[1]
               decade == Log10Floor(v)
           IN \A i \in DOMAIN E96_VALUES, k \in (decade - 1)..(decade + 1) :
                  DecLeq(DecAbsDiff(Get(result.value.nearest), v),
                         DecAbsDiff(Dec(E96_VALUES[i], k - 2), v))

\* decode_capacitor has just run
MarkingDone == pc = "done" /\ call.op = "decode_capacitor"

\* the four grammars in the order of their precedence: electrolytic,
\* R-decimal, alphanumeric, bare EIA 3-digit
Grammars == <<_RE_ELECTROLYTIC, _RE_RDECIMAL, _RE_ALPHA, _RE_EIA>>

\* the reading each grammar gives: None or a DecodedCap
Reading(i, text) ==
    CASE i = 1 -> _try_electrolytic(text)
      [] i = 2 -> _try_rdecimal(text)
      [] i = 3 -> _try_alpha(text)
      [] i = 4 -> _try_eia(text)

\* the grammars of which the pattern matches the text
Matching(text) == {i \in DOMAIN Grammars : ~IsNone(Match(Grammars[i], text))}

\* the first of them
FirstMatching(text) == CHOOSE i \in Matching(text) : \A j \in Matching(text) : i <= j

\* C11: for every marking the result of decode_capacitor is the reading of the
\* first grammar, in the order electrolytic, R-decimal, alphanumeric, bare
\* EIA 3-digit, that matches the trimmed text, and decode_capacitor fails
\* exactly when the trimmed text is empty or no grammar matches it.
C11_GrammarPrecedence ==
    MarkingDone =>
        LET text == Strip(call.args[1])
        IN IF text = <<>> \/ Matching(text) = {} THEN ~result.ok
           ELSE /\ result.ok
                /\ ~IsNone(Reading(FirstMatching(text), text))
                /\ result.value = Get(Reading(FirstMatching(text), text))

\* the unit of a marking is a microfarad unit: u or the micro sign, with an
\* f or without, in either case
MicrofaradUnit(unit) ==
    [i \in DOMAIN unit |-> Lower(unit[i])]
        \in {<<"u">>, <<"u", "f">>, <<"µ">>, <<"µ", "f">>}

\* the text is a number, a microfarad unit, an optional separator, 1 to 4
\* voltage digits and a V
ElectrolyticMarking(text) ==
    /\ ~IsNone(Match(_RE_ELECTROLYTIC, text))
    /\ MicrofaradUnit(Group(Get(Match(_RE_ELECTROLYTIC, text)), 5, 6))

EiaPicofarads(s, k) ==
    IF k = 8 THEN Dec(s, -2) ELSE IF k = 9 THEN Dec(s, -1) ELSE Dec(s, k)

\* C13: for a marking of two significand digits s and one multiplier digit k,
\* with an optional tolerance letter and an optional voltage of 2 to 4
\* digits, the decoded picofarads are s * 10^k for k in 0..7, s * 0.01 for
\* k = 8 and s * 0.1 for k = 9; the tolerance letter maps through the EIA
\* letter table and the trailing digits become the voltage.
C13_BareEiaReading ==
    (MarkingDone /\ ~IsNone(Match(_RE_EIA, Strip(call.args[1])))) =>
        LET m == Get(Match(_RE_EIA, Strip(call.args[1])))
            letter == IF m[3] = <<>> THEN "" ELSE Upper(m[3][1])
        IN /\ result.ok
           /\ DecEq(result.value.capacitance.pf,
                    EiaPicofarads(ParseInt(m[1]), ParseInt(m[2])))
           /\ result.value.tolerance_percent =
                  (IF letter \in DOMAIN TOLERANCE_CODES
                   THEN Some(TOLERANCE_CODES[letter]) ELSE None)
           /\ result.value.voltage_max =
                  (IF m[4] = <<>> THEN None ELSE Some(ParseInt(m[4])))

\* a bare marking with the multiplier digit 8, a tolerance letter and a
\* voltage has been decoded
C13_Witness ==
    /\ MarkingDone
    /\ Len(call.args[1]) = 6
    /\ SubSeq(call.args[1], 1, 4) = <<"4", "7", "8", "K">>
    /\ result.ok
    /\ result.value.voltage_max = Some(50)
    /\ result.value.tolerance_letter = Some("K")

TypeDone ==
    /\ pc = "done"
    /\ call.op = "decode_with_type"
    /\ ~IsNone(prev)
    /\ Get(prev).call.op = "decode_capacitor"
    /\ Get(prev).call.args[1] = call.args[1]

\* C15: decode_with_type(m, T) fails exactly when decode_capacitor(m) fails,
\* and otherwise returns a record of type T whose capacitance, tolerance
\* percent, tolerance letter, voltage, source text and confidence are those
\* of decode_capacitor(m); with no override the result is the one of
\* decode_capacitor(m).
C15_TypeOverride ==
    TypeDone =>
        LET plain == Get(prev).result
            cap_type == call.args[2]
        IN /\ result.ok = plain.ok
           /\ (result.ok /\ IsNone(cap_type)) => result.value = plain.value
           /\ (result.ok /\ ~IsNone(cap_type)) =>
                  /\ result.value.cap_type = Get(cap_type)
                  /\ result.value.capacitance = plain.value.capacitance
                  /\ result.value.tolerance_percent
                         = plain.value.tolerance_percent
                  /\ result.value.tolerance_letter
                         = plain.value.tolerance_letter
                  /\ result.value.voltage_max = plain.value.voltage_max
                  /\ result.value.source_code = plain.value.source_code
                  /\ result.value.confidence = plain.value.confidence

\* a marking of the electrolytic grammar has been decoded with the type
\* ceramic given
C15_Witness ==
    /\ TypeDone
    /\ call.args[2] = Some("ceramic")
    /\ Get(prev).result.ok
    /\ Get(prev).result.value.cap_type = "electrolytic"
    /\ Get(prev).result.value.confidence = 95
    /\ result.ok
    /\ result.value.cap_type = "ceramic"

\* C16: encode_resistor returns no EncodedResistor when tolerance_percent is
\* not one of 0.05, 0.1, 0.25, 0.5, 1, 2, 5, 10, for every ohms, and returns
\* none when ohms is zero or negative.
C16_EncodeResistorRefuses ==
    EncodeDone =>
        /\ call.args[2] \notin {5, 10, 25, 50, 100, 200, 500, 1000} =>
                ~result.ok
        /\ call.args[1].m <= 0 => ~result.ok

\* 47 ohms has been refused at 3 %, and a negative magnitude at 1 %
C16_Witness ==
    /\ EncodeDone
    /\ ~result.ok
    /\ result.raises = "ValueError"
    /\ \/ call.args = <<Dec(47, 0), 300>>
       \/ call.args[1].m < 0 /\ call.args[2] = 100

\* encode_capacitor has just run
EncodeCapDone == pc = "done" /\ call.op = "encode_capacitor"

\* the number of magnitude arguments supplied
Supplied(args) ==
    Cardinality({unit \in CapUnits : ~IsNone(args[unit])})

\* C17: encode_capacitor returns an EncodedCap only if exactly one of pf, nf,
\* uf is supplied, that magnitude is strictly positive and tolerance_percent
\* is one of 1, 2, 5, 10, 20; with no magnitude argument, with two or with
\* three it fails whatever the other arguments are.
C17_EncodeCapacitorAccepts ==
    EncodeCapDone =>
        /\ result.ok =>
                /\ Supplied(call.args) = 1
                /\ Magnitude(call.args).m > 0
                /\ call.args.tolerance_percent \in {100, 200, 500, 1000, 2000}
        /\ Supplied(call.args) # 1 =>
                ~result.ok /\ result.raises = "ValueError"

\* a call with pf and nf at 10 %, and one with 47 nF at 3 %, have been
\* refused
C17_Witness ==
    /\ EncodeCapDone
    /\ ~result.ok
    /\ \/ /\ Supplied(call.args) = 2
          /\ call.args.tolerance_percent = 1000
       \/ /\ call.args.nf = Some(Dec(47, 0))
          /\ Supplied(call.args) = 1
          /\ call.args.tolerance_percent = 300

\* C18: encode_capacitor fails, and returns no markings, whenever the voltage
\* supplied is outside the supported set, at the least whenever it is zero or
\* negative.
C18_VoltageRefused ==
    (/\ EncodeCapDone
     /\ ~IsNone(call.args.voltage)
     /\ Get(call.args.voltage) <= 0) => ~result.ok

\* the digits after the point of a decimal that is no integer
FractionDigits(x) ==
    LET n == Norm(x)
        frac == n.m % Pow10(-n.e)
    IN Zeros(-n.e - NumDigits(frac)) \o IntToStr(frac)

\* C19: the alphanumeric code of encode_capacitor has the unit letter u when
\* the value is at least 0.1 microfarad, otherwise n when it is at least 0.1
\* nanofarad, otherwise p; a value integral in that unit is rendered as the
\* integer and the unit, another one as the integer part, the unit and the
\* fraction digits.
C19_AlphaCode ==
    (EncodeCapDone /\ result.ok) =>
        LET pf == result.value.capacitance.pf
            unit == IF DecLeq(Dec(1, 5), pf) THEN "u"
                    ELSE IF DecLeq(Dec(1, 2), pf) THEN "n" ELSE "p"
            value == IF unit = "u" THEN Dec(pf.m, pf.e - 6)
                     ELSE IF unit = "n" THEN Dec(pf.m, pf.e - 3) ELSE pf
        IN result.value.alpha_code =
               (IF IsInteger(value) THEN IntToStr(IntPart(value)) \o <<unit>>
                ELSE IntToStr(IntPart(value)) \o <<unit>>
                     \o FractionDigits(value))

\* C20: every ResistorValue decode_resistor returns has ohms > 0, and every
\* DecodedCap decode_capacitor returns has capacitance.pf > 0.
C20_MagnitudesPositive ==
    /\ (DecodeDone /\ result.ok) => result.value.ohms.m > 0
    /\ (MarkingDone /\ result.ok) => result.value.capacitance.pf.m > 0

\* an encode has just run with the tolerance of the decode in prev
DecodedToleranceEncoded ==
    /\ pc = "done"
    /\ ~IsNone(prev)
    /\ \/ /\ call.op = "encode_resistor"
          /\ Get(prev).call.op = "decode_resistor"
       \/ /\ call.op = "encode_capacitor"
          /\ Get(prev).call.op = "decode_capacitor"

\* C21: every tolerance percent decode_resistor can return is accepted by
\* encode_resistor, and every tolerance percent decode_capacitor can return,
\* for any tolerance letter its grammars accept, is accepted by
\* encode_capacitor.
C21_ToleranceClosedSet == DecodedToleranceEncoded => result.ok

\* ohms is a significand of digits digits times a defined multiplier
Representable(ohms, low, high) ==
    \E s \in low..high : \E mult \in MultiplierKeys : DecEq(ohms, Dec(s, mult.e))

\* C22: for every positive ohms that is a 3-digit significand times a defined
\* multiplier and is no 2-digit significand in 10..99 times a defined
\* multiplier, encode_resistor at a supported tolerance succeeds with bands_4
\* absent; bands_4 is present only for values a 2-digit significand represents.
C22_FourBandAlternative ==
    EncodeDone =>
        /\ (/\ call.args[2] \in DOMAIN TOLERANCE_TO_COLOR
            /\ Representable(call.args[1], 100, 999)
            /\ ~Representable(call.args[1], 10, 99)) =>
                result.ok /\ IsNone(result.value.bands_4)
        /\ (result.ok /\ ~IsNone(result.value.bands_4)) =>
                Representable(call.args[1], 10, 99)

\* nf = pf / 1000 and uf = pf / 1000000
UnitsAgree(units) ==
    /\ DecEq(units.nf, Dec(units.pf.m, units.pf.e - 3))
    /\ DecEq(units.uf, Dec(units.pf.m, units.pf.e - 6))

\* C23: every CapUnit produced by pf_to_units, nf_to_units, uf_to_units,
\* decode_capacitor, decode_with_type or encode_capacitor has nf = pf / 1000
\* and uf = pf / 1000000, and nf_to_units(x).pf = 1000 * x and
\* uf_to_units(x).pf = 1000000 * x.
C23_UnitViewsAgree ==
    (pc = "done" /\ result.ok) =>
        /\ call.op \in {"pf_to_units", "nf_to_units", "uf_to_units"} =>
                UnitsAgree(result.value)
        /\ call.op \in {"decode_capacitor", "decode_with_type", "encode_capacitor"} =>
                UnitsAgree(result.value.capacitance)
        /\ call.op = "nf_to_units" =>
                DecEq(result.value.pf, DecMul10(call.args[1], 3))
        /\ call.op = "uf_to_units" =>
                DecEq(result.value.pf, DecMul10(call.args[1], 6))

\* uf_to_units(10) has returned 10000 nF and 10000000 pF
C23_Witness ==
    /\ pc = "done"
    /\ call.op = "uf_to_units"
    /\ call.args = <<Dec(10, 0)>>
    /\ DecEq(result.value.nf, Dec(10000, 0))
    /\ DecEq(result.value.pf, Dec(10000000, 0))

\* C24: every voltage rating present in a DecodedCap returned by
\* decode_capacitor is a positive integer, for every marking accepted by any
\* of the four grammars.
C24_VoltagePositive ==
    (MarkingDone /\ result.ok /\ ~IsNone(result.value.voltage_max)) =>
        Get(result.value.voltage_max) \in Nat \ {0}

\* a call has run alone, other calls have run, and the call has run again
Repeated == pc = "done" /\ ~IsNone(prev) /\ Get(prev).call = call

Spelled(bands) ==
    LET digits == Len(bands) - 2
        value(i) == CHOOSE d \in DOMAIN DIGIT_TO_COLOR : DIGIT_TO_COLOR[d] = bands[i]
    IN IF \E i \in 1..digits :
            \A d \in DOMAIN DIGIT_TO_COLOR : DIGIT_TO_COLOR[d] # bands[i]
       THEN -1
       ELSE IF digits = 3 THEN 100 * value(1) + 10 * value(2) + value(3)
       ELSE 10 * value(1) + value(2)

\* C26: for every positive ohms and supported tolerance, a quotient on a
\* search-window boundary included, encode_resistor either returns bands_5
\* whose three digit bands spell an integer in 100..999 (and, when bands_4 is
\* present, two digit bands that spell an integer in 10..99), or fails with
\* the error of an unrepresentable value; it fails in no other way.
C26_EncodeInRangeOrUnrepresentable ==
    (/\ EncodeDone
     /\ call.args[1].m > 0
     /\ call.args[2] \in DOMAIN TOLERANCE_TO_COLOR) =>
        IF result.ok
        THEN /\ Spelled(result.value.bands_5) \in 100..999
             /\ ~IsNone(result.value.bands_4) =>
                    Spelled(Get(result.value.bands_4)) \in 10..99
        ELSE result.raises = "ValueError"

\* every value of the table small is a value of the table large
Nested(small, large) ==
    \A i \in DOMAIN small : \E j \in DOMAIN large : small[i] = large[j]

\* C27: the series tables find_e_series tests in the order E12, E24, E48, E96
\* nest: every E12 significand is in the E24 table, every E24 significand is
\* in the E48 table and every E48 significand is in the E96 table.
C27_SeriesNest ==
    SeriesDone =>
        /\ Nested(E_SERIES.E12, E_SERIES.E24)
        /\ Nested(E_SERIES.E24, E_SERIES.E48)
        /\ Nested(E_SERIES.E48, E_SERIES.E96)

\* ohms / mult rounds to a significand in low..high whose product with mult
\* is within 0.1 % of ohms, within 1 % for gold and silver
Satisfies(mult, ohms, low, high, ulp) ==
    LET sig == Round(Quotient(ohms, mult), ulp)
    IN /\ Log10Floor(Quotient(ohms, mult)) \in 0..3
       /\ sig \in low..high
       /\ RoundTrips(sig, mult, ohms, IF mult.e < 0 THEN Dec(1, -2) ELSE Dec(1, -3))

\* the multiplier band of bands stands for the smallest multiplier that
\* satisfies
SmallestSatisfying(bands, ohms, low, high, ulp) ==
    LET mult == MultiplierOf(bands[Len(bands) - 1])
    IN /\ Satisfies(mult, ohms, low, high, ulp)
       /\ \A other \in MultiplierKeys :
            DecLess(other, mult) => ~Satisfies(other, ohms, low, high, ulp)

\* C28: whenever encode_resistor returns a band sequence, its multiplier band
\* is the numerically smallest defined multiplier, gold and silver included,
\* for which ohms / multiplier rounds to a significand in range (100..999 for
\* bands_5, 10..99 for bands_4) with a round trip below 0.1 % (below 1 % for
\* gold and silver); a call with equal arguments returns equal bands.
C28_SmallestMultiplier ==
    (EncodeDone /\ result.ok) =>
        /\ SmallestSatisfying(result.value.bands_5, call.args[1], 100, 999,
                              call.noise.ulp)
        /\ ~IsNone(result.value.bands_4) =>
                SmallestSatisfying(Get(result.value.bands_4), call.args[1],
                                   10, 99, call.noise.ulp)
        /\ result = encode_resistor(call.args[1], call.args[2], call.noise)

\* 9.96 ohms has been encoded with the silver band, 996 * 0.01, although
\* 100 * 0.1 is within 1 % of it, and without bands_4
C28_Witness ==
    /\ EncodeDone
    /\ result.ok
    /\ DecEq(call.args[1], Dec(996, -2))
    /\ result.value.bands_5[4] = "silver"
    /\ Satisfies(Dec(1, -1), call.args[1], 100, 999, call.noise.ulp)
    /\ IsNone(result.value.bands_4)

\* C29: the classification heuristic never yields unknown or tantalum and does
\* not depend on the voltage: for the magnitude of every successful decode and
\* any voltage or none _guess_type_from_pf returns the same type, and the
\* DecodedCap of decode_capacitor has the type film/box, ceramic or
\* electrolytic.
C29_HeuristicIgnoresVoltage ==
    (MarkingDone /\ result.ok) =>
        LET pf == result.value.capacitance.pf
        IN /\ result.value.cap_type \in {"film_box", "ceramic", "electrolytic"}
           /\ \A voltage \in {None, result.value.voltage_max}
                             \cup {Some(v) : v \in {0, 5, 49, 50, 63, 9999}} :
                /\ _guess_type_from_pf(pf, voltage) = _guess_type_from_pf(pf, None)
                /\ _guess_type_from_pf(pf, voltage)
                        \in {"film_box", "ceramic", "electrolytic"}

\* a marking of 47 nF has been taken for a film capacitor with a voltage
\* below 50 V
C29_Witness ==
    /\ MarkingDone
    /\ result.ok
    /\ DecEq(result.value.capacitance.pf, Dec(47, 3))
    /\ ~IsNone(result.value.voltage_max)
    /\ Get(result.value.voltage_max) < 50
    /\ result.value.cap_type = "film_box"
    /\ _guess_type_from_pf(result.value.capacitance.pf, Some(63)) = "film_box"

\* C30: for every positive integer voltage with which encode_capacitor
\* succeeds, decode_capacitor of full_film_code and of full_alpha_code both
\* succeed and return voltage_max equal to that voltage, and return no
\* voltage when none was given.
C30_VoltageRoundTrip ==
    (/\ CapRoundTripDone
     /\ \/ IsNone(Get(prev).call.args.voltage)
        \/ Get(Get(prev).call.args.voltage) > 0) =>
        /\ result.ok
        /\ result.value.voltage_max = Get(prev).call.args.voltage

====
